---- MODULE Spec2Model ----
(***************************************************************************)
(* burda::ct::hash_map<N, K, V> with K = const char* and V = int, as used  *)
(* by example_simple: a std::array of N pairs, searched left to right.     *)
(* Iterators are modelled as positions 0..N into the array (N is cend()).  *)
(* A const char* is modelled as a pointer into a character array: the      *)
(* array's content `str`, the instance `inst` that tells two arrays with   *)
(* equal content apart, and the offset `off` of the pointee.               *)
(***************************************************************************)
EXTENDS Integers, Sequences, FiniteSets, TLC

VARIABLES N, supplied, status, data, call, lastIter, eqA, eqB, eqRet, readers, eqRun

vars == <<N, supplied, status, data, call, lastIter, eqA, eqB, eqRet, readers, eqRun>>

---------------------------------------------------------------------------
(* Bounds *)

\* largest declared size N and largest number of constructor arguments
MaxN == 2

\* longest string (without its terminator) compared by SpecEqual
MaxStrLen == 2

\* number of distinct character arrays holding the same string
Instances == 2

---------------------------------------------------------------------------
(* Program constants *)

\* '\0'
NUL == 0

\* V{} for V = int
DefaultV == 0

\* the value-initialised int and one other value
Values == {DefaultV, 1}

\* "key1", "key2" and their proper prefix "key", with k=1 e=2 y=3 '1'=4 '2'=5
KeyLiterals == { <<1, 2, 3, 4, NUL>>, <<1, 2, 3, 5, NUL>>, <<1, 2, 3, NUL>> }

\* the characters of the strings SpecEqual compares
Chars == {1, 2}

---------------------------------------------------------------------------
(* const char* *)

Ptr(i, s) == [inst |-> i, str |-> s, off |-> 0]

\* *p
Deref(p) == p.str[p.off + 1]

\* p + 1
Advance(p) == [p EXCEPT !.off = @ + 1]

\* the character sequence p points to, up to and including its terminator
Str(p) ==
    LET end == CHOOSE j \in (p.off + 1)..Len(p.str) :
                   /\ p.str[j] = NUL
                   /\ \A m \in (p.off + 1)..(j - 1) : p.str[m] # NUL
    IN  SubSeq(p.str, p.off + 1, end)

KeyPtrs == { Ptr(i, s) : i \in 1..Instances, s \in KeyLiterals }

NoKey == [inst |-> 0, str |-> <<NUL>>, off |-> 0]

Pairs == [first : KeyPtrs, second : Values]

\* std::pair<K, V>{}
DefaultPair == [first |-> NoKey, second |-> DefaultV]

---------------------------------------------------------------------------
(* hash_map: private helpers *)

\* pointer comparison instead of character comparison
equalByAddress(a, b) == a = b

\* stops at the first terminator of either string: a prefix compares equal
RECURSIVE equalPrefix(_, _)
equalPrefix(a, b) ==
    \/ Deref(a) = NUL
    \/ Deref(b) = NUL
    \/ (Deref(a) = Deref(b) /\ equalPrefix(Advance(a), Advance(b)))

RECURSIVE equal(_, _)
equal(a, b) ==
    /\ Deref(a) = Deref(b)
    /\ (Deref(a) = NUL \/ equal(Advance(a), Advance(b)))

\* starts at the second element
cbeginSecond(d) == 1

cbegin(d) == 0

cend(d) == Len(d)

\* keeps scanning after a match: the last matching pair wins
RECURSIVE searchLast(_, _, _, _)
searchLast(L, R, key, d) ==
    IF L < R
    THEN LET rest == searchLast(L + 1, R, key, d)
         IN  IF rest # cend(d) THEN rest
             ELSE IF equal(d[L + 1].first, key) THEN cbegin(d) + L ELSE cend(d)
    ELSE cend(d)

RECURSIVE search(_, _, _, _)
search(L, R, key, d) ==
    IF L < R
    THEN IF equal(d[L + 1].first, key)
         THEN cbegin(d) + L
         ELSE search(L + 1, R, key, d)
    ELSE cend(d)

---------------------------------------------------------------------------
(* hash_map: construction *)

\* std::array<std::pair<K, V>, n>{elems...}: missing elements are
\* value-initialised; more than n initialisers do not compile
ArrayInit(n, elems) ==
    [i \in 1..n |-> IF i <= Len(elems) THEN elems[i] ELSE DefaultPair]

\* without the second static_assert: fewer arguments than N are padded
ctorNoCountCheck(n, elems) ==
    IF n > 0 /\ Len(elems) <= n
    THEN [ok |-> TRUE, data |-> ArrayInit(n, elems)]
    ELSE [ok |-> FALSE, data |-> <<>>]

\* hash_map(E&&... elements)
ctor(n, elems) ==
    IF n > 0 /\ n = Len(elems)
    THEN [ok |-> TRUE, data |-> ArrayInit(n, elems)]
    ELSE [ok |-> FALSE, data |-> <<>>]

---------------------------------------------------------------------------
(* hash_map: queries *)

\* starts the scan at the second pair
findSkipFirst(d, key) == search(1, Len(d), key, d)

find(d, key) == search(0, Len(d), key, d)

\* compares against the last position instead of cend()
containsOffByOne(d, key) == search(0, Len(d), key, d) # cend(d) - 1

contains(d, key) == search(0, Len(d), key, d) # cend(d)

\* the reference bound to the temporary V{} is dangling when at() returns:
\* reading it yields `dangling`
at(d, key, dangling) ==
    LET it == find(d, key)
    IN  IF it # cend(d)
        THEN [first |-> TRUE, second |-> d[it + 1].second]
        ELSE [first |-> FALSE, second |-> dangling]

\* returns the value of the pair after the one found
indexNextPair(d, key, pastEnd) ==
    LET it == find(d, key)
    IN  IF it + 1 < cend(d) THEN d[it + 2].second ELSE pastEnd

\* operator[]: find(key)->second; dereferencing cend() reads past the
\* array and yields `pastEnd`
index(d, key, pastEnd) ==
    LET it == find(d, key)
    IN  IF it # cend(d) THEN d[it + 1].second ELSE pastEnd

sizeMinusOne(d) == Len(d) - 1

size(d) == Len(d)

empty(d) == FALSE

---------------------------------------------------------------------------
(* The throwing variant of hash_map: keys are compared with K's operator==, *)
(* for const char* the addresses; at() throws std::out_of_range.            *)

RECURSIVE searchThrowing(_, _, _, _)
searchThrowing(L, R, key, d) ==
    IF L < R
    THEN IF d[L + 1].first = key
         THEN cbegin(d) + L
         ELSE searchThrowing(L + 1, R, key, d)
    ELSE cend(d)

\* a miss answers with V{} instead of throwing
atThrowingDefault(d, key) ==
    LET it == searchThrowing(0, Len(d), key, d)
    IN  IF it # cend(d) THEN <<"value", d[it + 1].second>> ELSE <<"value", DefaultV>>

\* at(): <<"value", v>> is a normal return, <<"out_of_range">> the exception
atThrowing(d, key) ==
    LET it == searchThrowing(0, Len(d), key, d)
    IN  IF it # cend(d) THEN <<"value", d[it + 1].second>> ELSE <<"out_of_range">>

\* operator[]: return at(key)
indexThrowing(d, key) == atThrowing(d, key)

---------------------------------------------------------------------------
(* The calling program: one construction, then queries one at a time.     *)
(* `call` is the query whose result the caller holds; the caller either   *)
(* drops the result (Return) or issues the same query again.              *)

NoCall == [op |-> "none", key |-> NoKey, ret |-> 0]

Call(op, key, ret) == [op |-> op, key |-> key, ret |-> ret]

Ready(op, key) ==
    /\ status = "built"
    /\ \/ call = NoCall
       \/ (call.op = op /\ call.key = key)

\* the constructor arguments: any number of pairs up to MaxN
ArgLists == UNION { [1..m -> Pairs] : m \in 0..MaxN }

\* the strings SpecEqual compares: every string of at most MaxStrLen characters
StrPool == UNION { { s \o <<NUL>> : s \in [1..m -> Chars] } : m \in 0..MaxStrLen }

StrPtrs == { Ptr(i, s) : i \in 1..Instances, s \in StrPool }

\* no comparison under way
NoRun == [a |-> NoKey, b |-> NoKey, reads |-> 0]

Init ==
    /\ N = 0
    /\ supplied = <<>>
    /\ status = "unbuilt"
    /\ data = <<>>
    /\ call = NoCall
    /\ lastIter = <<>>
    /\ eqA = NoKey
    /\ eqB = NoKey
    /\ eqRet = <<>>
    /\ readers = <<>>
    /\ eqRun = NoRun

\* burda::ct::hash_map<n, const char*, int> map{elems...}, for any n and elems
Construct ==
    /\ status = "unbuilt"
    /\ \E n \in 0..MaxN, elems \in ArgLists :
           /\ N' = n
           /\ supplied' = elems
           /\ status' = IF ctor(n, elems).ok THEN "built" ELSE "rejected"
           /\ data' = ctor(n, elems).data
    /\ UNCHANGED <<call, lastIter, eqA, eqB, eqRet, readers, eqRun>>

Find(key) ==
    /\ Ready("find", key)
    /\ call' = Call("find", key, find(data, key))
    /\ UNCHANGED <<N, supplied, status, data, lastIter, eqA, eqB, eqRet, readers, eqRun>>

Contains(key) ==
    /\ Ready("contains", key)
    /\ call' = Call("contains", key, contains(data, key))
    /\ UNCHANGED <<N, supplied, status, data, lastIter, eqA, eqB, eqRet, readers, eqRun>>

At(key) ==
    /\ Ready("at", key)
    /\ \E dangling \in Values :
           call' = Call("at", key, at(data, key, dangling))
    /\ UNCHANGED <<N, supplied, status, data, lastIter, eqA, eqB, eqRet, readers, eqRun>>

Index(key) ==
    /\ Ready("index", key)
    /\ \E pastEnd \in Values :
           call' = Call("index", key, index(data, key, pastEnd))
    /\ UNCHANGED <<N, supplied, status, data, lastIter, eqA, eqB, eqRet, readers, eqRun>>

Size ==
    /\ Ready("size", NoKey)
    /\ call' = Call("size", NoKey, size(data))
    /\ UNCHANGED <<N, supplied, status, data, lastIter, eqA, eqB, eqRet, readers, eqRun>>

Empty ==
    /\ Ready("empty", NoKey)
    /\ call' = Call("empty", NoKey, empty(data))
    /\ UNCHANGED <<N, supplied, status, data, lastIter, eqA, eqB, eqRet, readers, eqRun>>

\* for (const auto& [key, value] : map): __begin = map.begin(), __end = map.end()
IterBegin ==
    /\ status = "built"
    /\ call = NoCall
    /\ call' = Call("iter", NoKey, [it |-> cbegin(data), end |-> cend(data), seq |-> <<>>])
    /\ UNCHANGED <<N, supplied, status, data, lastIter, eqA, eqB, eqRet, readers, eqRun>>

\* __begin != __end: visit *__begin, then ++__begin
IterStep ==
    /\ call.op = "iter"
    /\ call.ret.it # call.ret.end
    /\ call' = [call EXCEPT !.ret.seq = Append(@, data[call.ret.it + 1]),
                            !.ret.it = @ + 1]
    /\ UNCHANGED <<N, supplied, status, data, lastIter, eqA, eqB, eqRet, readers, eqRun>>

\* __begin == __end: the loop is left
IterEnd ==
    /\ call.op = "iter"
    /\ call.ret.it = call.ret.end
    /\ call' = NoCall
    /\ lastIter' = call.ret.seq
    /\ UNCHANGED <<N, supplied, status, data, eqA, eqB, eqRet, readers, eqRun>>

\* the caller is done with the result of a query
Return ==
    /\ call.op \notin {"none", "iter"}
    /\ call' = NoCall
    /\ UNCHANGED <<N, supplied, status, data, lastIter, eqA, eqB, eqRet, readers, eqRun>>

Next ==
    \/ Construct
    \/ \E key \in KeyPtrs : Find(key)
    \/ \E key \in KeyPtrs : Contains(key)
    \/ \E key \in KeyPtrs : At(key)
    \/ \E key \in KeyPtrs : Index(key)
    \/ Size
    \/ Empty
    \/ IterBegin
    \/ IterStep
    \/ IterEnd
    \/ Return

Spec == Init /\ [][Next]_vars

---------------------------------------------------------------------------
(* The key comparison alone, on any two strings *)

InitEqual ==
    /\ N = 0
    /\ supplied = <<>>
    /\ status = "unbuilt"
    /\ data = <<>>
    /\ call = NoCall
    /\ lastIter = <<>>
    /\ eqA \in StrPtrs
    /\ eqB \in StrPtrs
    /\ eqRet = <<>>
    /\ readers = <<>>
    /\ eqRun = NoRun

\* equal(data[L].first, key)
EqualCall ==
    /\ eqRet = <<>>
    /\ eqRet' = <<equal(eqA, eqB)>>
    /\ UNCHANGED <<N, supplied, status, data, call, lastIter, eqA, eqB, readers, eqRun>>

NextEqual == EqualCall

SpecEqual == InitEqual /\ [][NextEqual]_vars

---------------------------------------------------------------------------
(* The throwing variant: one construction, then at() and operator[] *)

AtThrowing(key) ==
    /\ Ready("atT", key)
    /\ call' = Call("atT", key, atThrowing(data, key))
    /\ UNCHANGED <<N, supplied, status, data, lastIter, eqA, eqB, eqRet, readers, eqRun>>

IndexThrowing(key) ==
    /\ Ready("indexT", key)
    /\ call' = Call("indexT", key, indexThrowing(data, key))
    /\ UNCHANGED <<N, supplied, status, data, lastIter, eqA, eqB, eqRet, readers, eqRun>>

NextThrow ==
    \/ Construct
    \/ \E key \in KeyPtrs : AtThrowing(key)
    \/ \E key \in KeyPtrs : IndexThrowing(key)
    \/ Return

SpecThrow == Init /\ [][NextThrow]_vars

---------------------------------------------------------------------------
(* Readers of one constructed container, each running a query of its own,  *)
(* their steps interleaved: a step is one level of search<L, R> (one key    *)
(* comparison) or one round of the range-for loop.                          *)

\* the reading threads
Readers == {1, 2}

SearchOps == {"find", "contains", "at"}

\* the container's keys are the first instance of each literal, the keys
\* the readers ask for are separately stored copies
ReaderPairs == [first : { Ptr(1, s) : s \in KeyLiterals }, second : Values]

ReaderKeys == { Ptr(Instances, s) : s \in KeyLiterals }

IdleReader ==
    [pc |-> "idle", op |-> "none", key |-> NoKey, L |-> 0, reads |-> <<>>, ret |-> <<>>]

\* search<0, N>(key), or __begin = map.begin()
StartReader(op, key, d) ==
    [pc |-> "run", op |-> op, key |-> key, L |-> cbegin(d), reads |-> <<>>, ret |-> <<>>]

\* what find, contains and at make of the position search returns
Finish(op, it, d, dangling) ==
    IF op = "find" THEN it
    ELSE IF op = "contains" THEN it # cend(d)
    ELSE IF it # cend(d)
         THEN [first |-> TRUE, second |-> d[it + 1].second]
         ELSE [first |-> FALSE, second |-> dangling]

\* the scan position is one cursor shared by all readers
SearchStepSharedCursor(rs, d, dangling) ==
    LET cursor == CHOOSE m \in { readers[q].L : q \in Readers } :
                      \A q \in Readers : readers[q].L <= m
    IN  IF rs.L < Len(d)
        THEN IF equal(d[rs.L + 1].first, rs.key)
             THEN [rs EXCEPT !.pc = "done",
                             !.reads = Append(@, rs.L),
                             !.ret = <<Finish(rs.op, cbegin(d) + rs.L, d, dangling)>>]
             ELSE [rs EXCEPT !.L = cursor + 1,
                             !.reads = Append(@, rs.L)]
        ELSE [rs EXCEPT !.pc = "done",
                        !.ret = <<Finish(rs.op, cend(d), d, dangling)>>]

\* L <= R instead of L < R: compares the element past the last one as well
SearchStepInclusive(rs, d, dangling) ==
    LET entry == IF rs.L < Len(d) THEN d[rs.L + 1] ELSE DefaultPair
    IN  IF rs.L <= Len(d)
        THEN IF equal(entry.first, rs.key)
             THEN [rs EXCEPT !.pc = "done",
                             !.reads = Append(@, rs.L),
                             !.ret = <<Finish(rs.op, cbegin(d) + rs.L, d, dangling)>>]
             ELSE [rs EXCEPT !.L = @ + 1,
                             !.reads = Append(@, rs.L)]
        ELSE [rs EXCEPT !.pc = "done",
                        !.ret = <<Finish(rs.op, cend(d), d, dangling)>>]

\* one instantiation search<L, R>: `reads` lists the indices L whose
\* data[L] has been compared with the key
SearchStep(rs, d, dangling) ==
    IF rs.L < Len(d)
    THEN IF equal(d[rs.L + 1].first, rs.key)
         THEN [rs EXCEPT !.pc = "done",
                         !.reads = Append(@, rs.L),
                         !.ret = <<Finish(rs.op, cbegin(d) + rs.L, d, dangling)>>]
         ELSE [rs EXCEPT !.L = @ + 1,
                         !.reads = Append(@, rs.L)]
    ELSE [rs EXCEPT !.pc = "done",
                    !.ret = <<Finish(rs.op, cend(d), d, dangling)>>]

\* one round of the range-for loop: `ret` is the sequence of entries seen
LoopStep(rs, d) ==
    IF rs.L # cend(d)
    THEN [rs EXCEPT !.L = @ + 1,
                    !.reads = Append(@, rs.L),
                    !.ret = Append(@, d[rs.L + 1])]
    ELSE [rs EXCEPT !.pc = "done"]

InitReaders ==
    /\ N \in 1..MaxN
    /\ supplied \in [1..N -> ReaderPairs]
    /\ status = "built"
    /\ data = ctor(N, supplied).data
    /\ call = NoCall
    /\ lastIter = <<>>
    /\ eqA = NoKey
    /\ eqB = NoKey
    /\ eqRet = <<>>
    /\ readers = [r \in Readers |-> IdleReader]
    /\ eqRun = NoRun

ReaderSearchStart(r) ==
    /\ readers[r].pc = "idle"
    /\ \E op \in SearchOps, key \in ReaderKeys :
           readers' = [readers EXCEPT ![r] = StartReader(op, key, data)]
    /\ UNCHANGED <<N, supplied, status, data, call, lastIter, eqA, eqB, eqRet, eqRun>>

ReaderLoopStart(r) ==
    /\ readers[r].pc = "idle"
    /\ readers' = [readers EXCEPT ![r] = StartReader("iter", NoKey, data)]
    /\ UNCHANGED <<N, supplied, status, data, call, lastIter, eqA, eqB, eqRet, eqRun>>

ReaderSearch(r) ==
    /\ readers[r].pc = "run"
    /\ readers[r].op \in SearchOps
    /\ \E dangling \in Values :
           readers' = [readers EXCEPT ![r] = SearchStep(readers[r], data, dangling)]
    /\ UNCHANGED <<N, supplied, status, data, call, lastIter, eqA, eqB, eqRet, eqRun>>

ReaderLoop(r) ==
    /\ readers[r].pc = "run"
    /\ readers[r].op = "iter"
    /\ readers' = [readers EXCEPT ![r] = LoopStep(readers[r], data)]
    /\ UNCHANGED <<N, supplied, status, data, call, lastIter, eqA, eqB, eqRet, eqRun>>

\* the reader is done with its result
ReaderReturn(r) ==
    /\ readers[r].pc = "done"
    /\ readers' = [readers EXCEPT ![r] = IdleReader]
    /\ UNCHANGED <<N, supplied, status, data, call, lastIter, eqA, eqB, eqRet, eqRun>>

NextReaders ==
    \E r \in Readers :
        \/ ReaderSearchStart(r)
        \/ ReaderLoopStart(r)
        \/ ReaderSearch(r)
        \/ ReaderLoop(r)
        \/ ReaderReturn(r)

SpecReaders == InitReaders /\ [][NextReaders]_vars

---------------------------------------------------------------------------
(* The string comparison step by step: one step is one call of             *)
(* equal(a, b), which reads *a and *b and either answers or calls          *)
(* equal(a + 1, b + 1).                                                     *)

\* without the test for the terminator: goes on while the characters agree
EqualStepNoTerminator(run) ==
    IF Deref(run.a) # Deref(run.b)
    THEN [run |-> [run EXCEPT !.reads = @ + 1], ret |-> <<FALSE>>]
    ELSE [run |-> [a |-> Advance(run.a), b |-> Advance(run.b), reads |-> run.reads + 1],
          ret |-> <<>>]

\* *a == *b && (*a == '\0' || equal(a + 1, b + 1)); `reads` counts the
\* character positions compared
EqualStepOp(run) ==
    IF Deref(run.a) # Deref(run.b)
    THEN [run |-> [run EXCEPT !.reads = @ + 1], ret |-> <<FALSE>>]
    ELSE IF Deref(run.a) = NUL
    THEN [run |-> [run EXCEPT !.reads = @ + 1], ret |-> <<TRUE>>]
    ELSE [run |-> [a |-> Advance(run.a), b |-> Advance(run.b), reads |-> run.reads + 1],
          ret |-> <<>>]

InitEqualSteps ==
    /\ N = 0
    /\ supplied = <<>>
    /\ status = "unbuilt"
    /\ data = <<>>
    /\ call = NoCall
    /\ lastIter = <<>>
    /\ eqA \in StrPtrs
    /\ eqB \in StrPtrs
    /\ eqRet = <<>>
    /\ readers = <<>>
    /\ eqRun = [a |-> eqA, b |-> eqB, reads |-> 0]

EqualStep ==
    /\ eqRet = <<>>
    /\ eqRun # NoRun
    /\ eqRun' = EqualStepOp(eqRun).run
    /\ eqRet' = EqualStepOp(eqRun).ret
    /\ UNCHANGED <<N, supplied, status, data, call, lastIter, eqA, eqB, readers>>

NextEqualSteps == EqualStep

SpecEqualSteps == InitEqualSteps /\ [][NextEqualSteps]_vars

---------------------------------------------------------------------------
(* Properties *)

\* k equals, as a string, the key of some constructor argument
Present(k) == \E i \in 1..Len(supplied) : Str(supplied[i].first) = Str(k)

\* the first constructor argument whose key equals k
FirstIdx(k) ==
    CHOOSE i \in 1..Len(supplied) :
        /\ Str(supplied[i].first) = Str(k)
        /\ \A j \in 1..(i - 1) : Str(supplied[j].first) # Str(k)

DistinctKeys ==
    \A i, j \in 1..Len(supplied) :
        i # j => Str(supplied[i].first) # Str(supplied[j].first)

\* C1: on a container built from pairwise distinct keys, find(k) returns the
\* position of the pair whose key equals k, which holds the value supplied
\* with it, and returns the end position N when no constructed key equals k.
C1_FindPosition ==
    (status = "built" /\ DistinctKeys /\ call.op = "find") =>
        /\ \A i \in 1..Len(supplied) :
               Str(supplied[i].first) = Str(call.key) =>
                   /\ call.ret = i - 1
                   /\ data[call.ret + 1].second = supplied[i].second
        /\ ~Present(call.key) => call.ret = N

\* find hits the second pair through a separately stored copy of its key
C1_Witness ==
    /\ status = "built" /\ DistinctKeys /\ N = 2
    /\ call.op = "find" /\ call.ret = 1
    /\ call.key # data[2].first

\* C2: contains(k) is true exactly when find(k) is not the end position,
\* exactly when k equals a constructed key; the container is as constructed.
C2_ContainsIffPresent ==
    call.op = "contains" =>
        /\ call.ret = (find(data, call.key) # N)
        /\ call.ret = Present(call.key)
        /\ data = supplied

C2_Witness ==
    /\ call.op = "contains" /\ call.ret = FALSE
    /\ N = 2 /\ lastIter # <<>>

\* C3: at(k) returns (true, v) with v the value supplied with k when k is
\* present, and (false, V{}) when k is absent.
C3_AtFlagAndValue ==
    call.op = "at" =>
        call.ret = IF Present(call.key)
                   THEN [first |-> TRUE, second |-> supplied[FirstIdx(call.key)].second]
                   ELSE [first |-> FALSE, second |-> DefaultV]

\* C4: on a constructed container size() is N, the number of pairs supplied,
\* and empty() is false, whatever queries have been made.
C4_SizeAndEmpty ==
    /\ status = "built" =>
           /\ size(data) = N
           /\ N = Len(supplied)
           /\ empty(data) = FALSE
    /\ call.op = "size" => call.ret = N
    /\ call.op = "empty" => call.ret = FALSE

C4_Witness ==
    /\ call.op = "size" /\ call.ret = 2
    /\ Len(supplied) = 2 /\ lastIter # <<>>

\* C5: an iteration visits the constructor arguments in order, one more per
\* step, stops after exactly N of them, and a later iteration yields the
\* sequence the earlier one yielded.
C5_Iteration ==
    /\ [](call.op = "iter" =>
            /\ call.ret.it <= N
            /\ call.ret.end = N
            /\ call.ret.seq = SubSeq(supplied, 1, call.ret.it)
            /\ (call.ret.it # call.ret.end => ENABLED IterStep)
            /\ (call.ret.it = call.ret.end =>
                    /\ call.ret.seq = supplied
                    /\ Len(call.ret.seq) = N
                    /\ (lastIter # <<>> => lastIter = call.ret.seq)))
    /\ [][(call.op = "iter" /\ call'.op = "iter") =>
            call'.ret.it = call.ret.it + 1]_vars

\* a second iteration over two pairs has finished
C5_Witness ==
    /\ call.op = "iter" /\ call.ret.it = call.ret.end
    /\ N = 2 /\ lastIter # <<>>

\* C6: equal(a, b) on null-terminated strings is true exactly when both hold
\* the same characters up to and including the terminator, whether or not
\* they are the same array.
C6_EqualByContent ==
    eqRet # <<>> => eqRet = << Str(eqA) = Str(eqB) >>

\* two separately stored copies of a non-empty string compare equal
C6_Witness ==
    /\ eqRet = <<TRUE>>
    /\ eqA # eqB
    /\ Len(Str(eqA)) > 1

\* C7: a container exists only if N > 0 and exactly N pairs were supplied,
\* and then holds exactly those pairs; otherwise construction fails and no
\* container exists.
C7_Construction ==
    /\ status = "built" =>
           /\ N > 0
           /\ Len(supplied) = N
           /\ data = supplied
    /\ (status # "unbuilt" /\ (N = 0 \/ Len(supplied) # N)) =>
           /\ status = "rejected"
           /\ data = <<>>

\* N declared 2 with one pair supplied
C7_Witness ==
    /\ status = "rejected"
    /\ N = 2
    /\ Len(supplied) = 1

KeyedOps == {"find", "contains", "at", "index"}

\* C8: no query changes the stored pairs, which stay the ones supplied, and
\* a keyed query issued again with the same key returns the same result.
C8_ImmutableAndRepeatable ==
    [][status = "built" =>
          /\ data' = data
          /\ data' = supplied'
          /\ (call.op \in KeyedOps /\ call'.op = call.op /\ call'.key = call.key)
                 => call'.ret = call.ret]_vars

\* C9: duplicate keys do not make construction fail, and find, at and
\* operator[] then answer with the first pair, in construction order, whose
\* key equals k.
C9_FirstMatchWins ==
    /\ (status # "unbuilt" /\ N > 0 /\ Len(supplied) = N) => status = "built"
    /\ (status = "built" /\ ~DistinctKeys /\ Present(call.key)) =>
           /\ call.op = "find" =>
                  /\ call.ret = FirstIdx(call.key) - 1
                  /\ \A j \in 1..call.ret : Str(data[j].first) # Str(call.key)
           /\ call.op = "at" =>
                  call.ret.second = supplied[FirstIdx(call.key)].second
           /\ call.op = "index" =>
                  call.ret = supplied[FirstIdx(call.key)].second

\* two pairs with equal keys and different values: at answers with the first
C9_Witness ==
    /\ status = "built" /\ N = 2
    /\ Str(supplied[1].first) = Str(supplied[2].first)
    /\ supplied[1].second # supplied[2].second
    /\ call.op = "at" /\ call.ret.first
    /\ call.ret.second = supplied[1].second

\* C10: for a key present in the container operator[] returns the value
\* supplied with it, which is also at(k).second.
C10_IndexPresent ==
    (call.op = "index" /\ contains(data, call.key)) =>
        /\ Present(call.key)
        /\ call.ret = supplied[FirstIdx(call.key)].second
        /\ \A dangling \in Values : call.ret = at(data, call.key, dangling).second

\* operator[] through a separately stored copy of the second key
C10_Witness ==
    /\ call.op = "index" /\ N = 2 /\ DistinctKeys
    /\ Str(call.key) = Str(supplied[2].first)
    /\ call.key # supplied[2].first
    /\ call.ret = 1 /\ supplied[1].second = 0

\* k is, as a pointer, the key of some constructor argument
PresentByAddress(k) == \E i \in 1..Len(supplied) : supplied[i].first = k

FirstIdxByAddress(k) ==
    CHOOSE i \in 1..Len(supplied) :
        /\ supplied[i].first = k
        /\ \A j \in 1..(i - 1) : supplied[j].first # k

C12_ReadersUndisturbed ==
    /\ [](/\ status = "built"
          /\ data = supplied
          /\ \A r \in Readers :
                LET rs == readers[r]
                IN  /\ \A i \in 1..Len(rs.reads) : rs.reads[i] < N
                    /\ (rs.op = "iter" /\ rs.pc # "idle") =>
                           /\ rs.ret = SubSeq(supplied, 1, rs.L)
                           /\ (rs.pc = "done" => rs.ret = supplied)
                    /\ (rs.pc = "done" /\ rs.op = "find") =>
                           rs.ret = <<find(data, rs.key)>>
                    /\ (rs.pc = "done" /\ rs.op = "contains") =>
                           rs.ret = <<contains(data, rs.key)>>
                    /\ (rs.pc = "done" /\ rs.op = "at") =>
                           \E dangling \in Values :
                               rs.ret = <<at(data, rs.key, dangling)>>)
    /\ [][data' = data /\ supplied' = supplied]_vars

\* a find that hit the second pair while the other reader was inside a scan
C12_Witness ==
    /\ N = 2
    /\ readers[1].pc = "done" /\ readers[1].op = "find" /\ readers[1].ret = <<1>>
    /\ readers[2].pc = "run" /\ readers[2].op \in SearchOps /\ readers[2].L = 1

\* C13: a scan compares data[0], data[1], ... in this order, never an index
\* >= N, stops at the first match after i + 1 comparisons or at the end
\* after N, and every step either ends it or adds one comparison.
C13_ScanCost ==
    /\ [](\A r \in Readers :
            LET rs == readers[r]
            IN  (rs.op \in SearchOps) =>
                    /\ \A i \in 1..Len(rs.reads) : rs.reads[i] = i - 1 /\ rs.reads[i] < N
                    /\ Len(rs.reads) <= N
                    /\ rs.L <= N
                    /\ rs.pc = "run" => ENABLED ReaderSearch(r)
                    /\ rs.pc = "done" =>
                           Len(rs.reads) = IF \E i \in 1..N : Str(supplied[i].first) = Str(rs.key)
                                           THEN FirstIdx(rs.key)
                                           ELSE N)
    /\ [][\A r \in Readers :
            (readers[r].op \in SearchOps /\ readers[r].pc = "run" /\ readers'[r] # readers[r]) =>
                \/ readers'[r].pc = "done"
                \/ Len(readers'[r].reads) = Len(readers[r].reads) + 1]_vars

\* a scan of two pairs that matched none has made exactly two comparisons
C13_Witness ==
    /\ N = 2
    /\ readers[1].pc = "done" /\ readers[1].op = "contains"
    /\ readers[1].ret = <<FALSE>> /\ readers[1].reads = <<0, 1>>

\* the number of characters of the string at p, without the terminator
StrLen(p) == Len(Str(p)) - 1

MinOf(x, y) == IF x <= y THEN x ELSE y

\* C14: equal(a, b) compares at most min(len(a), len(b)) + 1 character
\* positions, never has a pointer beyond the terminator of its string, and
\* moves both pointers on by one only from equal non-terminator characters.
C14_EqualBounded ==
    /\ [](eqRun # NoRun =>
            /\ eqRun.a.off <= StrLen(eqA)
            /\ eqRun.b.off <= StrLen(eqB)
            /\ eqRun.reads <= MinOf(StrLen(eqA), StrLen(eqB)) + 1
            /\ eqRet = <<>> => (eqRun.reads = eqRun.a.off /\ ENABLED EqualStep)
            /\ eqRet # <<>> => (eqRun.reads = eqRun.a.off + 1 /\ eqRet = <<equal(eqA, eqB)>>))
    /\ [][/\ eqRun'.reads = eqRun.reads + 1
          /\ (eqRun'.a # eqRun.a \/ eqRun'.b # eqRun.b) =>
                 /\ Deref(eqRun.a) = Deref(eqRun.b)
                 /\ Deref(eqRun.a) # NUL
                 /\ eqRun'.a = Advance(eqRun.a)
                 /\ eqRun'.b = Advance(eqRun.b)]_vars

\* two copies of a two-character string: three positions compared, the last
\* one the terminators
C14_Witness ==
    /\ eqRet = <<TRUE>>
    /\ eqA # eqB
    /\ StrLen(eqA) = 2
    /\ eqRun.reads = 3
    /\ Deref(eqRun.a) = NUL

====
